---- MODULE Spec2Model ----
(***************************************************************************)
(* Selection state, dataset aggregation and country-code reconciliation of *)
(* the two dashboards of the repository:                                   *)
(*   - the salary dashboard (src/app/main.js), which redraws every view    *)
(*     from scratch through appState.updateDashboard, and                  *)
(*   - the disaster map (src/app/appState.js, utils/updateDisplay.js,      *)
(*     utils/loadExcelAsJSON.js), which restyles drawn elements through    *)
(*     the registered update callbacks.                                    *)
(* A browser page loads one of the two entry points; `page` records which. *)
(*                                                                         *)
(* Encoding of JavaScript values:                                          *)
(*   - a value that may be null/undefined is a sequence of length <= 1:    *)
(*     <<>> is null/undefined, <<v>> is the value v;                       *)
(*   - numeric ids are the integers that unary plus yields (+d.id,         *)
(*     +country_id);                                                       *)
(*   - an object used as a dictionary is a function on its set of keys.    *)
(***************************************************************************)
EXTENDS Integers, Sequences, FiniteSets

(* ------------------------------ bounds --------------------------------- *)

\* longest reference table (rows of iso-codes-map.csv / countryCodeData)
MaxRows == 2
\* longest salary record list of the aggregation scenarios
MaxRecords == 2
\* number of most recent map clicks remembered in `trail`
TrailLen == 3
\* histogram scenario: salaries are the multiples of 15000 up to 15000 * MaxHistMultiple
MaxHistMultiple == 8
\* longest list of registered redraw callbacks
MaxCallbacks == 3
\* most polygons of a multi-polygon shape
MaxPolygons == 2

(* --------------------------- program constants ------------------------- *)

HISTOGRAM_NUM_BINS == 30

null == <<>>

undefined == <<>>

zoomIdentity == [k |-> 1, x |-> 0, y |-> 0]

(* ------------------------------ JS helpers ----------------------------- *)

\* Object.fromEntries: keys are the first components, a repeated key keeps
\* the value of its last entry.
fromEntries(entries) ==
    [key \in {entries[i][1] : i \in DOMAIN entries} |->
        entries[CHOOSE i \in DOMAIN entries :
                    /\ entries[i][1] = key
                    /\ \A j \in DOMAIN entries : entries[j][1] = key => j <= i][2]]

\* obj[key] for a key that is present or not: <<value>> or undefined.
lookup(obj, key) == IF key \in DOMAIN obj THEN <<obj[key]>> ELSE undefined

\* obj[k] where k itself may be null/undefined (the key "null"/"undefined"
\* is in no table).
lookupOpt(obj, optKey) == IF optKey = <<>> THEN undefined ELSE lookup(obj, optKey[1])

\* Array.from(new Set(seq)): distinct elements in first-appearance order.
RECURSIVE uniqueInOrder(_)
uniqueInOrder(seq) ==
    IF seq = <<>> THEN <<>>
    ELSE LET front == uniqueInOrder(SubSeq(seq, 1, Len(seq) - 1))
             last  == seq[Len(seq)]
         IN IF \E i \in DOMAIN front : front[i] = last THEN front
            ELSE Append(front, last)

\* ascending sort of a sequence of numbers (insertion sort)
RECURSIVE sortAscending(_)
sortAscending(seq) ==
    IF seq = <<>> THEN <<>>
    ELSE LET rest == sortAscending(Tail(seq))
             x    == Head(seq)
             n    == Cardinality({i \in DOMAIN rest : rest[i] < x})
         IN SubSeq(rest, 1, n) \o <<x>> \o SubSeq(rest, n + 1, Len(rest))

RECURSIVE sumSeq(_)
sumSeq(seq) == IF seq = <<>> THEN 0 ELSE Head(seq) + sumSeq(Tail(seq))

seqsUpTo(S, n) == UNION {[1..m -> S] : m \in 0..n}

(* ------------------------------- state --------------------------------- *)

VARIABLES
    page,                  \* "salary" (main.js) or "disaster" (appState.js)
    phase,                 \* "loading" until the page's first draw, then "ready"
    \* --- salary dashboard: the three loads of Promise.all and what they yield
    loads,                 \* per load: "pending", "fulfilled" or "rejected"
    salaryData,            \* rows of ds_salaries.csv
    countryData,           \* features of the world atlas: [id, name]
    isoCodeMapData,        \* rows of iso-codes-map.csv
    \* --- salary dashboard: appState of main.js
    selectedCountryIso2,
    selectedCountryName,
    mapTransformation,
    \* --- salary dashboard: what the last updateDashboard handed to and drew in the views
    histogramData,         \* argument of displayHistogram
    bins,                  \* bins of the histogram generator
    sankeyData,            \* argument of displaySankey
    links,                 \* links of the flow diagram
    mapData,               \* mapData argument of displayMap
    countrySalaries,       \* per-country median map (values in half dollars)
    colorDomain,           \* domain of the colour scale (half dollars)
    employee_countries,    \* linkage counts attached to the features
    countryConnections,    \* arcs drawn for the selected country
    opacity,               \* opacity style of every drawn country path
    mapGroupTransform,     \* transform attribute of the drawn map group, if drawn
    arcs,                  \* d attribute of every drawn arc: its two end points
    \* --- both maps: what displayMap attaches to the features and draws from it
    largestPolygon,        \* per feature: coordinates of d.largestPolygon
    centroid,              \* per feature: d.centroid, a pair of numbers or NaN
    labels,                \* per feature: x and y attribute of its label
    \* --- disaster map: appState of appState.js
    selectedCountry,
    selectedYear,
    displayStage,
    updateCallbacks,
    countryCodeData,
    \* --- disaster map: lookup tables of the country-code module
    ISO3ToIdMap,
    ISO2ToIdMap,
    ISO3ToISO2Map,
    ISO2ToISO3Map,
    IdToNameMap,
    \* --- disaster map: drawn country groups and callback invocations
    countryGroups,         \* per drawn country: [stroke, opacity]
    invoked,               \* callbacks invoked by the latest updateDisplay, in order
    \* --- observation: the most recent map clicks, oldest first
    trail

salaryInputs == <<loads, salaryData, countryData, isoCodeMapData>>

salaryAppState == <<selectedCountryIso2, selectedCountryName, mapTransformation>>

salaryViews == <<histogramData, bins, sankeyData, links, mapData, countrySalaries,
                 colorDomain, employee_countries, countryConnections, opacity,
                 mapGroupTransform, arcs>>

mapShapes == <<largestPolygon, centroid, labels>>

disasterAppState == <<selectedCountry, selectedYear, displayStage, updateCallbacks,
                      countryCodeData>>

conversionMaps == <<ISO3ToIdMap, ISO2ToIdMap, ISO3ToISO2Map, ISO2ToISO3Map, IdToNameMap>>

disasterViews == <<countryGroups, invoked>>

vars == <<page, phase, salaryInputs, salaryAppState, salaryViews, mapShapes, disasterAppState,
          conversionMaps, disasterViews, trail>>

(* ----------------- salary dashboard: dataset aggregation --------------- *)

\* a faulty variant of filteredSalaryData, filtering on the employee's
\* country instead of the company's
filterByEmployeeResidence(data, selected) ==
    SelectSeq(data, LAMBDA r : IF selected # null THEN r.employee_residence = selected[1]
                               ELSE TRUE)

\* main.js:38-40. A null (or empty) selection keeps every record.
filteredSalaryData(data, selected) ==
    SelectSeq(data, LAMBDA r : IF selected # null THEN r.company_location = selected[1]
                               ELSE TRUE)

\* main.js:42
salaryHistogramData(filtered) == [i \in DOMAIN filtered |-> filtered[i].salary_in_usd]

\* main.js:45-51
binSalaries(salary) ==
    IF salary < 50000 THEN "< 50k"
    ELSE IF salary >= 50000 /\ salary < 100000 THEN "50k-100k"
    ELSE IF salary >= 100000 /\ salary < 150000 THEN "100k-150k"
    ELSE IF salary >= 150000 /\ salary < 200000 THEN "150k-200k"
    ELSE "200k+"

\* main.js:53-58; a level outside the table reads as undefined, which every
\* later use turns into the label "undefined".
experienceLevelMap(level) ==
    CASE level = "SE" -> "Senior"
      [] level = "MI" -> "Mid Level"
      [] level = "EN" -> "Entry Level"
      [] level = "EX" -> "Executive"
      [] OTHER -> "undefined"

\* main.js:60-64
binWorkTypes(remoteRatio) ==
    IF remoteRatio <= 33 THEN "in-office"
    ELSE IF remoteRatio > 33 /\ remoteRatio <= 66 THEN "hybrid"
    ELSE "remote"

\* main.js:66-70
parallelData(filtered) ==
    [i \in DOMAIN filtered |->
        [salaryBin       |-> binSalaries(filtered[i].salary_in_usd),
         experienceLevel |-> experienceLevelMap(filtered[i].experience_level),
         workType        |-> binWorkTypes(filtered[i].remote_ratio)]]

\* main.js:73-75
isoCodeToIdMap ==
    fromEntries([i \in DOMAIN isoCodeMapData |->
        <<isoCodeMapData[i].country_code_alpha2, isoCodeMapData[i].country_id>>])

\* a faulty variant of idToIsoCodeMap, reading the name column instead of
\* the alpha-2 column
idToIsoCodeMapByName ==
    fromEntries([i \in DOMAIN isoCodeMapData |->
        <<isoCodeMapData[i].country_id, isoCodeMapData[i].country_name>>])

idToIsoCodeMap ==
    fromEntries([i \in DOMAIN isoCodeMapData |->
        <<isoCodeMapData[i].country_id, isoCodeMapData[i].country_code_alpha2>>])

isoCodeToNameMap ==
    fromEntries([i \in DOMAIN isoCodeMapData |->
        <<isoCodeMapData[i].country_code_alpha2, isoCodeMapData[i].country_name>>])

\* main.js:77-82: built from ALL records, whatever the selection.
buildMapData(data, selected) ==
    [i \in DOMAIN data |->
        [salary_in_usd    |-> data[i].salary_in_usd,
         employee_country |-> lookup(isoCodeToIdMap, data[i].employee_residence),
         country          |-> lookup(isoCodeToIdMap, data[i].company_location),
         iso2             |-> data[i].company_location]]


(* ------------------- salary dashboard: displayHistogram ---------------- *)

RECURSIVE maxOf(_)
maxOf(data) ==
    IF Len(data) = 1 THEN data[1]
    ELSE LET m == maxOf(Tail(data)) IN IF data[1] > m THEN data[1] ELSE m

ceilDiv(a, b) == (a + b - 1) \div b

\* main.js:114-115, for a non-empty list of positive values
maxBinValue(data) ==
    ceilDiv(maxOf(data), HISTOGRAM_NUM_BINS) * (HISTOGRAM_NUM_BINS + 1)

RECURSIVE pow10(_)
pow10(p) == IF p = 0 THEN 1 ELSE 10 * pow10(p - 1)

\* floor(log10(stop / count)) for stop >= count
RECURSIVE powerOf(_, _, _)
powerOf(stop, count, p) ==
    IF pow10(p + 1) * count <= stop THEN powerOf(stop, count, p + 1) ELSE p

\* (stop / (count * 10^power))^2 >= c, in integers that stay below 2^31:
\* with stop = h * 10^power + l the square is h^2 + (2hl + l^2 / 10^power) / 10^power
errorSquaredAtLeast(stop, count, power, c) ==
    LET scale == pow10(power)
        h     == stop \div scale
        l     == stop % scale
        short == (c * count * count) - (h * h)
    IN short <= 0 \/ (2 * h * l) + ((l * l) \div scale) >= short * scale

\* d3 tickIncrement(0, stop, count) for stop >= count: step = stop / count,
\* power = floor(log10(step)), error = step / 10^power, and the increment is
\* 10, 5, 2 or 1 times 10^power as error reaches sqrt(50), sqrt(10), sqrt(2).
tickIncrement(stop, count) ==
    LET power  == powerOf(stop, count, 0)
        factor == IF errorSquaredAtLeast(stop, count, power, 50) THEN 10
                  ELSE IF errorSquaredAtLeast(stop, count, power, 10) THEN 5
                  ELSE IF errorSquaredAtLeast(stop, count, power, 2) THEN 2
                  ELSE 1
    IN factor * pow10(power)

\* main.js:122-130: x.ticks(HISTOGRAM_NUM_BINS) on the domain [0, stop]:
\* the multiples of the tick increment inside the domain.
ticks(stop, count) ==
    LET step == tickIncrement(stop, count)
    IN [i \in 1..((stop \div step) + 1) |-> (i - 1) * step]

\* d3 bisectRight: number of thresholds <= x
bisect(tz, x) == Cardinality({i \in DOMAIN tz : tz[i] <= x})

\* main.js:127-133: the histogram generator on the domain [0, x1] with the
\* thresholds tz (those <= 0 or > x1 already dropped): bin i spans from
\* threshold i-1 to threshold i, the last one up to x1
emptyBins(tz, x1) ==
    [i \in 1..(Len(tz) + 1) |->
        [x0 |-> IF i > 1 THEN tz[i - 1] ELSE 0,
         x1 |-> IF i <= Len(tz) THEN tz[i] ELSE x1,
         values |-> <<>>]]

\* main.js:133: each value inside the domain is pushed to the bin that
\* bisect selects
RECURSIVE fillBins(_, _, _, _)
fillBins(filled, data, tz, x1) ==
    IF data = <<>> THEN filled
    ELSE LET v == Head(data)
             i == bisect(tz, v) + 1
         IN fillBins(IF 0 <= v /\ v <= x1
                     THEN [filled EXCEPT ![i].values = Append(@, v)] ELSE filled,
                     Tail(data), tz, x1)

histogram(data, x1, thresholds) ==
    LET tz == SelectSeq(thresholds, LAMBDA t : t > 0 /\ t <= x1)
    IN fillBins(emptyBins(tz, x1), data, tz, x1)

\* main.js:114-133. With no data Math.max() is -Infinity: the domain is
\* [0, -Infinity], there is no tick and the single bin is empty (its upper
\* end is written -1 here).
displayHistogram(data) ==
    IF data = <<>> THEN <<[x0 |-> 0, x1 |-> 0 - 1, values |-> <<>>]>>
    ELSE LET stop == maxBinValue(data)
         IN histogram(data, stop, ticks(stop, HISTOGRAM_NUM_BINS))

(* --------------------- salary dashboard: displaySankey ----------------- *)

\* main.js:206-210
sankeyNodes(data) ==
    uniqueInOrder([i \in DOMAIN data |-> data[i].salaryBin])
    \o uniqueInOrder([i \in DOMAIN data |-> data[i].experienceLevel])
    \o uniqueInOrder([i \in DOMAIN data |-> data[i].workType])

\* main.js:211 (indices count from 0)
nodeMap(nodes) == fromEntries([i \in DOMAIN nodes |-> <<nodes[i], i - 1>>])

increment(matrix, i, j) == [matrix EXCEPT ![i][j] = @ + 1]

\* a faulty variant of linkMatrix, counting only the hop from salary bin to
\* experience level
RECURSIVE linkMatrixFirstHopOnly(_, _)
linkMatrixFirstHopOnly(data, nodes) ==
    IF data = <<>> THEN [i \in 0..(Len(nodes) - 1) |-> [j \in 0..(Len(nodes) - 1) |-> 0]]
    ELSE LET r  == data[Len(data)]
             nm == nodeMap(nodes)
             m0 == linkMatrixFirstHopOnly(SubSeq(data, 1, Len(data) - 1), nodes)
         IN increment(m0, nm[r.salaryBin], nm[r.experienceLevel])

\* main.js:213-218
RECURSIVE linkMatrix(_, _)
linkMatrix(data, nodes) ==
    IF data = <<>> THEN [i \in 0..(Len(nodes) - 1) |-> [j \in 0..(Len(nodes) - 1) |-> 0]]
    ELSE LET r  == data[Len(data)]
             nm == nodeMap(nodes)
             m0 == linkMatrix(SubSeq(data, 1, Len(data) - 1), nodes)
             m1 == increment(m0, nm[r.salaryBin], nm[r.experienceLevel])
         IN increment(m1, nm[r.experienceLevel], nm[r.workType])

\* main.js:220-232: the positive entries of the matrix, row by row
displaySankey(data) ==
    LET nodes  == sankeyNodes(data)
        n      == Len(nodes)
        matrix == linkMatrix(data, nodes)
        cells  == [p \in 1..(n * n) |-> <<(p - 1) \div n, (p - 1) % n>>]
        used   == SelectSeq(cells, LAMBDA c : matrix[c[1]][c[2]] > 0)
    IN [p \in DOMAIN used |->
           [source |-> used[p][1], target |-> used[p][2],
            value  |-> matrix[used[p][1]][used[p][2]]]]


(* ----------------------- salary dashboard: displayMap ------------------ *)

\* main.js:318-323: the features without Antarctica (the ids of the atlas
\* are numeric, so the test against 'ATA' never removes one)
features == SelectSeq(countryData, LAMBDA d : d.name # "Antarctica")

\* main.js:359
countryMap == fromEntries([i \in DOMAIN features |-> <<features[i].id, features[i]>>])

\* a number that may be NaN is a sequence of length <= 1: <<>> is NaN
NaN == <<>>

isNaN(number) == number = NaN

abs(n) == IF n < 0 THEN 0 - n ELSE n

\* d3.polygonArea of a ring of points <<x, y>>, doubled: the signed sum of
\* a[1] * b[0] - a[0] * b[1] over the consecutive points a, b, the last
\* point preceding the first
polygonArea(ring) ==
    LET n == Len(ring)
        before(i) == IF i = 1 THEN ring[n] ELSE ring[i - 1]
    IN sumSeq([i \in 1..n |-> (before(i)[2] * ring[i][1]) - (before(i)[1] * ring[i][2])])

\* main.js:341-347: the forEach over the polygons of a MultiPolygon, with
\* maxArea (<<>> is -Infinity) and largestPoly (<<>> is null) so far; a
\* polygon replaces the choice only when its area is strictly greater
RECURSIVE largestOf(_, _, _)
largestOf(polygons, maxArea, largestPoly) ==
    IF polygons = <<>> THEN largestPoly
    ELSE LET poly == Head(polygons)
             polyArea == abs(polygonArea(poly[1]))
         IN IF maxArea = <<>> \/ polyArea > maxArea[1]
            THEN largestOf(Tail(polygons), <<polyArea>>, <<poly>>)
            ELSE largestOf(Tail(polygons), maxArea, largestPoly)

\* main.js:333-352: the coordinates of d.largestPolygon
largestPoly(geom) ==
    IF geom.type = "Polygon" THEN <<geom.coordinates>>
    ELSE largestOf(geom.coordinates, <<>>, null)

\* main.js:354: path.centroid of the largest polygon.  A polygon without a
\* point has the centroid [NaN, NaN]; one with points has a finite
\* centroid, for which the model takes the mean corner of the outer ring
\* (its closing point left out; whole part), the projection left out.
pathCentroid(coordinates) ==
    IF coordinates = null \/ coordinates[1] = <<>> \/ coordinates[1][1] = <<>>
    THEN <<NaN, NaN>>
    ELSE LET ring == coordinates[1][1]
             n    == IF Len(ring) > 1 THEN Len(ring) - 1 ELSE 1
         IN <<<<sumSeq([i \in 1..n |-> ring[i][1]]) \div n>>,
              <<sumSeq([i \in 1..n |-> ring[i][2]]) \div n>>>>

\* main.js:551-556, appState.js:132-133: x and y of a label
labelPosition(point) ==
    [x |-> IF isNaN(point[1]) THEN <<0>> ELSE point[1],
     y |-> IF isNaN(point[2]) THEN <<0>> ELSE point[2]]

\* main.js:333-355, appState.js:47-69, 132-133: displayMap attaches largest
\* polygon and centroid to every feature and places the labels
drawShapes ==
    /\ largestPolygon' = [id \in DOMAIN countryMap |-> largestPoly(countryMap[id].geometry)]
    /\ centroid' = [id \in DOMAIN countryMap |->
                        pathCentroid(largestPoly(countryMap[id].geometry))]
    /\ labels' = [id \in DOMAIN countryMap |->
                      labelPosition(pathCentroid(largestPoly(countryMap[id].geometry)))]

\* one step of main.js:362-378: the counts of one company country after
\* dataPoint, counts being a dictionary keyed by the employee country
countEmployee(counts, key) ==
    IF key \in DOMAIN counts THEN [counts EXCEPT ![key] = @ + 1]
    ELSE [k \in DOMAIN counts \cup {key} |-> IF k = key THEN 1 ELSE counts[k]]

\* a faulty variant of linkage, keying the counts by the company country
\* instead of the employee country
RECURSIVE linkageByCompanyOnly(_)
linkageByCompanyOnly(data) ==
    IF data = <<>> THEN [id \in DOMAIN countryMap |-> <<>>]
    ELSE LET graph == linkageByCompanyOnly(SubSeq(data, 1, Len(data) - 1))
             dataPoint == data[Len(data)]
             company_country == dataPoint.country
         IN IF company_country = undefined \/ company_country[1] \notin DOMAIN countryMap
            THEN graph
            ELSE [graph EXCEPT ![company_country[1]] = countEmployee(@, dataPoint.country)]

\* main.js:362-378
RECURSIVE linkage(_)
linkage(data) ==
    IF data = <<>> THEN [id \in DOMAIN countryMap |-> <<>>]
    ELSE LET graph == linkage(SubSeq(data, 1, Len(data) - 1))
             dataPoint == data[Len(data)]
             company_country == dataPoint.country
         IN IF company_country = undefined \/ company_country[1] \notin DOMAIN countryMap
            THEN graph
            ELSE [graph EXCEPT ![company_country[1]] =
                                   countEmployee(@, dataPoint.employee_country)]

\* a faulty variant of median, taking the lower middle value of an even
\* number of values
lowerMedian(values) ==
    LET sorted == sortAscending(values)
        n      == Len(sorted)
    IN 2 * sorted[(n + 1) \div 2]

\* d3.median, in halves: the middle value of the sorted values, or the mean
\* of the two middle values
median(values) ==
    LET sorted == sortAscending(values)
        n      == Len(sorted)
    IN IF n % 2 = 1 THEN 2 * sorted[(n + 1) \div 2]
       ELSE sorted[n \div 2] + sorted[(n \div 2) + 1]

\* main.js:381-385: d3.rollup groups by d.country, undefined included
rollup(data) ==
    [key \in {data[i].country : i \in DOMAIN data} |->
        median(LET group == SelectSeq(data, LAMBDA d : d.country = key)
               IN [i \in DOMAIN group |-> group[i].salary_in_usd])]

\* main.js:388-389: d3.extent of the medians; no value gives an undefined domain
extent(values) ==
    IF values = {} THEN undefined
    ELSE <<CHOOSE v \in values : \A w \in values : v <= w,
           CHOOSE v \in values : \A w \in values : v >= w>>

\* main.js:408
pathOpacity(selected) ==
    [id \in DOMAIN countryMap |->
        IF selected = null \/ <<id>> = lookupOpt(isoCodeToIdMap, selected)
        THEN "1" ELSE "0.3"]

\* main.js:305, 514-516: the entries of the selected country's counts, in
\* the order of Object.entries (ascending numeric keys), kept when the
\* linked country is a feature
connections(graph, selected) ==
    LET selectedId == lookupOpt(isoCodeToIdMap, selected)
        counts == IF selectedId # undefined /\ selectedId[1] \in DOMAIN countryMap
                  THEN graph[selectedId[1]] ELSE <<>>
        ids    == {key[1] : key \in {k \in DOMAIN counts : k # undefined}}
        kept   == {id \in ids : id \in DOMAIN countryMap}
        order  == sortAscending(CHOOSE f \in [1..Cardinality(kept) -> kept] :
                                    \A i, j \in DOMAIN f : i # j => f[i] # f[j])
    IN [i \in DOMAIN order |-> [countryId |-> order[i], count |-> counts[<<order[i]>>]]]

\* main.js:507-512: the numbers generateArcPath writes after M and before
\* the end of the path: the two end points as they are
generateArcPath(from, to) == [x1 |-> from[1], y1 |-> from[2], x2 |-> to[1], y2 |-> to[2]]

\* main.js:519-528: the d attribute of the arc of every connection, from the
\* centroid of the linked country to the centroid of the selected one; a
\* centroid is an array, which the test `from && to` lets pass whatever it
\* holds
arcPaths(linkedCountries, selected) ==
    LET selectedId == lookupOpt(isoCodeToIdMap, selected)
        centroidOf(id) == pathCentroid(largestPoly(countryMap[id].geometry))
    IN [i \in DOMAIN linkedCountries |->
           <<generateArcPath(centroidOf(linkedCountries[i].countryId),
                             centroidOf(selectedId[1]))>>]


(* ------------------------ salary dashboard: actions -------------------- *)

\* the last TrailLen clicks: the selection each found and the country clicked
remember(before, clicked) ==
    LET all == Append(trail, [before |-> before, clicked |-> clicked])
    IN IF Len(all) > TrailLen THEN Tail(all) ELSE all

\* a faulty variant of zoomTransform, starting every drawn map unzoomed
zoomTransformReset(saved) == zoomIdentity

\* main.js:591-592: svg.call(zoom.transform, appState.mapTransformation)
\* dispatches a zoom event carrying the saved transform, as it is (the
\* extents are not enforced on a transform set explicitly)
zoomTransform(saved) == saved

\* main.js:31-87, 304-593: appState.updateDashboard, run with the selection
\* `selected`; displayMap ends by dispatching the saved transform to the
\* zoom handler (main.js:575-577), which puts it on the new map group and
\* stores it again
updateDashboard(selected) ==
    LET filtered == filteredSalaryData(salaryData, selected)
        forMap   == buildMapData(salaryData, selected)
        graph    == linkage(forMap)
        medians  == rollup(forMap)
    IN /\ histogramData' = salaryHistogramData(filtered)
       /\ bins' = displayHistogram(salaryHistogramData(filtered))
       /\ sankeyData' = parallelData(filtered)
       /\ links' = displaySankey(parallelData(filtered))
       /\ mapData' = forMap
       /\ employee_countries' = graph
       /\ countrySalaries' = medians
       /\ colorDomain' = extent({medians[key] : key \in DOMAIN medians})
       /\ opacity' = pathOpacity(selected)
       /\ countryConnections' = connections(graph, selected)
       /\ arcs' = arcPaths(connections(graph, selected), selected)
       /\ drawShapes
       /\ mapGroupTransform' = <<zoomTransform(mapTransformation)>>
       /\ mapTransformation' = zoomTransform(mapTransformation)

\* main.js:12-16: the three loads, in the order of the array
Loads == <<"ds_salaries.csv", "countries-110m.json", "iso-codes-map.csv">>

\* main.js:13-15: one of the loads settles, with its data or with an error
settle(load, outcome) ==
    /\ page = "salary"
    /\ load \in DOMAIN loads
    /\ loads[load] = "pending"
    /\ loads' = [loads EXCEPT ![load] = outcome]
    /\ UNCHANGED <<page, phase, salaryData, countryData, isoCodeMapData, salaryAppState,
                   salaryViews, mapShapes, disasterAppState, conversionMaps, disasterViews,
                   trail>>

\* a faulty variant of promiseAll, fulfilled as soon as no load is pending
promiseAllSettled(promises) ==
    IF \E load \in DOMAIN promises : promises[load] = "pending" THEN "pending"
    ELSE "fulfilled"

\* main.js:12-16: Promise.all is rejected once a load is rejected and
\* fulfilled once every load is fulfilled
promiseAll(promises) ==
    IF \E load \in DOMAIN promises : promises[load] = "rejected" THEN "rejected"
    ELSE IF \A load \in DOMAIN promises : promises[load] = "fulfilled" THEN "fulfilled"
    ELSE "pending"

\* main.js:16, 29-91: .then(displayDashboard) runs once Promise.all is
\* fulfilled; displayDashboard installs updateDashboard and draws for the
\* first time
displayDashboard ==
    /\ page = "salary"
    /\ phase = "loading"
    /\ promiseAll(loads) = "fulfilled"
    /\ phase' = "ready"
    /\ updateDashboard(selectedCountryIso2)
    /\ UNCHANGED <<page, salaryInputs, selectedCountryIso2, selectedCountryName,
                   disasterAppState, conversionMaps, disasterViews, trail>>

\* main.js:412: a country is clickable into a selection when the colour
\* scale gives its median a colour, that is when the median map has its id
hasData(d) == <<d>> \in DOMAIN countrySalaries

\* a faulty variant of clickedIso2, keeping the selection when the clicked
\* country has no data
clickedIso2KeepsSelection(d) ==
    IF ~hasData(d) THEN selectedCountryIso2
    ELSE IF lookupOpt(isoCodeToIdMap, selectedCountryIso2) = <<d>> THEN null
    ELSE lookup(idToIsoCodeMap, d)

\* a faulty variant of clickedIso2, without the branch that deselects the
\* selected country
clickedIso2NoDeselect(d) ==
    IF ~hasData(d) THEN null ELSE lookup(idToIsoCodeMap, d)

\* main.js:412-429: the alpha-2 code the click on d selects
clickedIso2(d) ==
    IF ~hasData(d) THEN null
    ELSE IF lookupOpt(isoCodeToIdMap, selectedCountryIso2) = <<d>> THEN null
    ELSE lookup(idToIsoCodeMap, d)

\* a faulty variant of clickedName, leaving the name as it was on a selection
clickedNameKept(d) ==
    IF clickedIso2(d) = null THEN "Global"
    ELSE selectedCountryName

\* main.js:414, 423, 427: the name that goes with it
clickedName(d) ==
    IF clickedIso2(d) = null THEN "Global"
    ELSE isoCodeToNameMap[clickedIso2(d)[1]]

\* main.js:409-433: the click handler of the country path d
mapClick(d) ==
    /\ page = "salary"
    /\ phase = "ready"
    /\ d \in DOMAIN opacity
    /\ selectedCountryIso2' = clickedIso2(d)
    /\ selectedCountryName' = clickedName(d)
    /\ updateDashboard(clickedIso2(d))
    /\ trail' = remember(selectedCountryIso2, d)
    /\ UNCHANGED <<page, phase, salaryInputs, disasterAppState, conversionMaps,
                   disasterViews>>

\* the transforms a zoom gesture may report (scale extent [1, 14])
Transforms == {zoomIdentity, [k |-> 2, x |-> 0 - 100, y |-> 0 - 50]}

\* a faulty variant of zoom, whose handler also drops the selection
zoomClearsSelection(transform) ==
    /\ page = "salary"
    /\ phase = "ready"
    /\ mapGroupTransform' = <<transform>>
    /\ mapTransformation' = transform
    /\ selectedCountryIso2' = null
    /\ selectedCountryName' = "Global"
    /\ UNCHANGED <<page, phase, salaryInputs,
                   histogramData, bins, sankeyData, links, mapData, countrySalaries,
                   colorDomain, employee_countries, countryConnections, opacity, arcs,
                   mapShapes, disasterAppState, conversionMaps, disasterViews, trail>>

\* main.js:575-588: the zoom handler
zoom(transform) ==
    /\ page = "salary"
    /\ phase = "ready"
    /\ mapGroupTransform' = <<transform>>
    /\ mapTransformation' = transform
    /\ UNCHANGED <<page, phase, salaryInputs, selectedCountryIso2, selectedCountryName,
                   histogramData, bins, sankeyData, links, mapData, countrySalaries,
                   colorDomain, employee_countries, countryConnections, opacity, arcs,
                   mapShapes, disasterAppState, conversionMaps, disasterViews, trail>>

NextSalary ==
    \/ \E load \in DOMAIN loads, outcome \in {"fulfilled", "rejected"} : settle(load, outcome)
    \/ displayDashboard
    \/ \E d \in {countryData[i].id : i \in DOMAIN countryData} : mapClick(d)
    \/ \E transform \in Transforms : zoom(transform)

(* ------------------------------ input sets ----------------------------- *)

\* a closed ring around the square with corner <<x, y>>, and a ring with its
\* points in the opposite order
square(x, y, side) ==
    <<<<x, y>>, <<x + side, y>>, <<x + side, y + side>>, <<x, y + side>>, <<x, y>>>>

reverseRing(ring) == [i \in DOMAIN ring |-> ring[Len(ring) + 1 - i]]

polygonGeometry(rings) == [type |-> "Polygon", coordinates |-> rings]

multiPolygonGeometry(polygons) == [type |-> "MultiPolygon", coordinates |-> polygons]

\* the world atlas: two countries and Antarctica, with the given shapes of
\* the two countries
atlasOf(usGeometry, caGeometry) ==
    <<[id |-> 840, name |-> "United States of America", geometry |-> usGeometry],
      [id |-> 124, name |-> "Canada", geometry |-> caGeometry],
      [id |-> 10, name |-> "Antarctica",
       geometry |-> polygonGeometry(<<square(2, 0 - 9, 4)>>)]>>

\* a mainland with an island, and a country of one polygon
Atlas == atlasOf(multiPolygonGeometry(<<<<square(10, 2, 2)>>, <<square(2, 2, 6)>>>>),
                 polygonGeometry(<<square(2, 10, 8)>>))

CountryNames == [id \in {840, 124, 276} |->
                    CASE id = 840 -> "United States" [] id = 124 -> "Canada"
                      [] OTHER -> "Germany"]

refRow(a2, a3, id) ==
    [country_code_alpha2 |-> a2, country_code_alpha3 |-> a3, country_id |-> id,
     country_name |-> CountryNames[id]]

\* rows that may repeat a code or an id
RefRows == {refRow(a2, a3, id) : a2 \in {"US", "CA"}, a3 \in {"USA"}, id \in {840, 124}}

\* a table whose last row for id 840 carries a code that another row gives
\* to id 124
ShadowedTable == <<refRow("US", "USA", 840), refRow("CA", "USA", 840), refRow("CA", "USA", 124)>>

\* a reference table with one row per country; DE has no shape in the atlas
CleanTable == <<refRow("US", "USA", 840), refRow("CA", "CAN", 124), refRow("DE", "DEU", 276)>>

salaryRecord(salary, level, remote, company, residence) ==
    [salary_in_usd |-> salary, experience_level |-> level, remote_ratio |-> remote,
     company_location |-> company, employee_residence |-> residence]

\* the datasets that hold one record for each country of a set of company
\* countries: which countries have data is all the selection depends on
SelectionDatasets ==
    {SelectSeq(<<salaryRecord(120000, "SE", 100, "US", "US"),
                 salaryRecord(40000, "EN", 0, "CA", "US")>>,
               LAMBDA r : r.company_location \in companies) :
        companies \in SUBSET {"US", "CA"}}

\* the pages before their first draw
salaryPageLoading ==
    /\ page = "salary"
    /\ phase = "loading"
    /\ loads = [load \in {Loads[i] : i \in DOMAIN Loads} |-> "pending"]
    /\ selectedCountryIso2 = null
    /\ selectedCountryName = "Global"
    /\ mapTransformation = zoomIdentity
    /\ histogramData = <<>> /\ bins = <<>> /\ sankeyData = <<>> /\ links = <<>>
    /\ mapData = <<>> /\ countrySalaries = <<>> /\ colorDomain = <<>>
    /\ employee_countries = <<>> /\ countryConnections = <<>> /\ opacity = <<>>
    /\ mapGroupTransform = undefined /\ arcs = <<>>
    /\ largestPolygon = <<>> /\ centroid = <<>> /\ labels = <<>>
    /\ selectedCountry = null /\ selectedYear = null /\ displayStage = 0
    /\ updateCallbacks = <<>> /\ countryCodeData = <<>>
    /\ ISO3ToIdMap = <<>> /\ ISO2ToIdMap = <<>> /\ ISO3ToISO2Map = <<>>
    /\ ISO2ToISO3Map = <<>> /\ IdToNameMap = <<>>
    /\ countryGroups = <<>> /\ invoked = <<>>
    /\ trail = <<>>

InitSalarySelection ==
    /\ salaryPageLoading
    /\ countryData = Atlas
    /\ isoCodeMapData \in seqsUpTo(RefRows, MaxRows) \cup {ShadowedTable}
    /\ salaryData \in SelectionDatasets

(* ------------------- disaster map: country-code lookups ---------------- *)

\* loadExcelAsJSON.js:26-56: initCountryCodeConversionMaps
initCountryCodeConversionMaps ==
    /\ page = "disaster"
    /\ ISO3ToIdMap' = fromEntries([i \in DOMAIN countryCodeData |->
            <<countryCodeData[i].country_code_alpha3, countryCodeData[i].country_id>>])
    /\ ISO2ToIdMap' = fromEntries([i \in DOMAIN countryCodeData |->
            <<countryCodeData[i].country_code_alpha2, countryCodeData[i].country_id>>])
    /\ ISO3ToISO2Map' = fromEntries([i \in DOMAIN countryCodeData |->
            <<countryCodeData[i].country_code_alpha3, countryCodeData[i].country_code_alpha2>>])
    /\ ISO2ToISO3Map' = fromEntries([i \in DOMAIN countryCodeData |->
            <<countryCodeData[i].country_code_alpha2, countryCodeData[i].country_code_alpha3>>])
    /\ IdToNameMap' = fromEntries([i \in DOMAIN countryCodeData |->
            <<countryCodeData[i].country_id, countryCodeData[i].country_name>>])
    /\ UNCHANGED <<page, phase, salaryInputs, salaryAppState, salaryViews, mapShapes,
                   disasterAppState, disasterViews, trail>>

\* loadExcelAsJSON.js:58-76
convertISO3ToId(iso3) == lookup(ISO3ToIdMap, iso3)

convertISO2ToId(iso2) == lookup(ISO2ToIdMap, iso2)

convertISO3ToISO2(iso3) == lookup(ISO3ToISO2Map, iso3)

convertISO2ToISO3(iso2) == lookup(ISO2ToISO3Map, iso2)

convertIdToName(id) == lookup(IdToNameMap, id)

(* ------------------- disaster map: drawing and dispatch ---------------- *)

\* appState.js:94-97, 112-118, 126: the style of the group of country id
groupStyle(id, selected) ==
    [stroke  |-> IF <<id>> = selected THEN "yellow" ELSE "black",
     opacity |-> IF selected = null THEN "1"
                 ELSE IF <<id>> = selected THEN "1" ELSE "0.3"]

\* a faulty variant of mapStep, restyling the stroke and leaving the opacity
\* of the groups as drawn
mapStepKeepsOpacity(groups, selected) ==
    [id \in DOMAIN groups |->
        [stroke  |-> IF <<id>> = selected THEN "yellow" ELSE "black",
         opacity |-> groups[id].opacity]]

\* appState.js:110-119: the update step that displayMap registers
mapStep(groups, selected) == [id \in DOMAIN groups |-> groupStyle(id, selected)]

\* the effect of one registered callback on the drawn groups; the steps of
\* the other views do not touch the map
callback(step, groups, selected) ==
    IF step = "map" THEN mapStep(groups, selected) ELSE groups

\* a faulty variant of forEach, running the callbacks last to first
RECURSIVE forEachReversed(_, _, _)
forEachReversed(callbacks, groups, selected) ==
    IF callbacks = <<>> THEN [groups |-> groups, invoked |-> <<>>]
    ELSE LET rest == forEachReversed(Tail(callbacks), groups, selected)
         IN [groups  |-> callback(Head(callbacks), rest.groups, selected),
             invoked |-> Append(rest.invoked, Head(callbacks))]

\* updateDisplay.js:7-9: forEach over the registered callbacks, giving the
\* drawn groups and the callbacks invoked, in order
RECURSIVE forEach(_, _, _)
forEach(callbacks, groups, selected) ==
    IF callbacks = <<>> THEN [groups |-> groups, invoked |-> <<>>]
    ELSE LET rest == forEach(Tail(callbacks),
                             callback(Head(callbacks), groups, selected), selected)
         IN [groups |-> rest.groups, invoked |-> <<Head(callbacks)>> \o rest.invoked]

\* updateDisplay.js:7-9, run with the selection `selected`
runUpdateDisplay(selected) ==
    LET done == forEach(updateCallbacks, countryGroups, selected)
    IN /\ countryGroups' = done.groups
       /\ invoked' = done.invoked

\* updateDisplay.js:3-5
pushStep(step) == updateCallbacks' = Append(updateCallbacks, step)

\* appState.js:19-166: displayMap draws the country groups for the current
\* selection and registers its update step
disasterDisplayMap ==
    /\ page = "disaster"
    /\ phase = "loading"
    /\ phase' = "ready"
    /\ Len(updateCallbacks) < MaxCallbacks
    /\ countryGroups' = [id \in DOMAIN countryMap |-> groupStyle(id, selectedCountry)]
    /\ pushStep("map")
    /\ drawShapes
    /\ UNCHANGED <<page, salaryInputs, salaryAppState, salaryViews, selectedCountry,
                   selectedYear, displayStage, countryCodeData, conversionMaps, invoked,
                   trail>>

\* updateDisplay.js:3-5: another view registers its update step
addDisplayUpdateStep(step) ==
    /\ page = "disaster"
    /\ Len(updateCallbacks) < MaxCallbacks
    /\ pushStep(step)
    /\ UNCHANGED <<page, phase, salaryInputs, salaryAppState, salaryViews, mapShapes,
                   selectedCountry, selectedYear, displayStage, countryCodeData,
                   conversionMaps, disasterViews, trail>>

\* updateDisplay.js:7-9: a handler of another view calls updateDisplay
updateDisplay ==
    /\ page = "disaster"
    /\ runUpdateDisplay(selectedCountry)
    /\ UNCHANGED <<page, phase, salaryInputs, salaryAppState, salaryViews, mapShapes,
                   disasterAppState, conversionMaps, trail>>

\* a faulty variant of toggle, without the branch that clears the selection
toggleNeverClears(current, clicked) == <<clicked>>

\* appState.js:98-107: the click handler of the country group d
toggle(current, clicked) == IF current = <<clicked>> THEN null ELSE <<clicked>>

disasterMapClick(d) ==
    /\ page = "disaster"
    /\ d \in DOMAIN countryGroups
    /\ selectedCountry' = toggle(selectedCountry, d)
    /\ runUpdateDisplay(toggle(selectedCountry, d))
    /\ trail' = remember(selectedCountry, d)
    /\ UNCHANGED <<page, phase, salaryInputs, salaryAppState, salaryViews, mapShapes,
                   selectedYear, displayStage, updateCallbacks, countryCodeData,
                   conversionMaps>>

\* the update steps of the views other than the map
OtherSteps == {"chart"}

NextDisaster ==
    \/ initCountryCodeConversionMaps
    \/ disasterDisplayMap
    \/ \E step \in OtherSteps : addDisplayUpdateStep(step)
    \/ updateDisplay
    \/ \E d \in {countryData[i].id : i \in DOMAIN countryData} : disasterMapClick(d)

disasterPageLoading ==
    /\ page = "disaster"
    /\ phase = "loading"
    /\ loads = <<>>
    /\ selectedCountry = null /\ selectedYear = null /\ displayStage = 0
    /\ updateCallbacks = <<>>
    /\ ISO3ToIdMap = <<>> /\ ISO2ToIdMap = <<>> /\ ISO3ToISO2Map = <<>>
    /\ ISO2ToISO3Map = <<>> /\ IdToNameMap = <<>>
    /\ countryGroups = <<>> /\ invoked = <<>>
    /\ salaryData = <<>> /\ isoCodeMapData = <<>>
    /\ selectedCountryIso2 = null
    /\ selectedCountryName = "Global"
    /\ mapTransformation = zoomIdentity
    /\ histogramData = <<>> /\ bins = <<>> /\ sankeyData = <<>> /\ links = <<>>
    /\ mapData = <<>> /\ countrySalaries = <<>> /\ colorDomain = <<>>
    /\ employee_countries = <<>> /\ countryConnections = <<>> /\ opacity = <<>>
    /\ mapGroupTransform = undefined /\ arcs = <<>>
    /\ largestPolygon = <<>> /\ centroid = <<>> /\ labels = <<>>
    /\ trail = <<>>

InitDisaster ==
    /\ disasterPageLoading
    /\ countryData = Atlas
    /\ countryCodeData = CleanTable

(* ---------------------------- specifications --------------------------- *)

\* both pages, with reference tables that may repeat codes and ids
Init == InitSalarySelection \/ InitDisaster

Next == NextSalary \/ NextDisaster

Spec == Init /\ [][Next]_vars

\* the salary dashboard over record lists that differ in company country,
\* salary and employee residence; ZZ is in no reference row
AggregationRecords ==
    {salaryRecord(profile[1], "SE", 100, company, profile[2]) :
        company \in {"US", "CA", "ZZ"}, profile \in {<<60000, "CA">>, <<90000, "DE">>}}

InitAggregation ==
    /\ salaryPageLoading
    /\ countryData = Atlas
    /\ isoCodeMapData = CleanTable
    /\ salaryData \in seqsUpTo(AggregationRecords, MaxRecords)

SpecAggregation == InitAggregation /\ [][NextSalary]_vars

\* the salary dashboard over record lists that differ in the three fields of
\* the flow diagram; XX is no experience level of the table
FlowRecords ==
    {salaryRecord(salary, job[1], job[2], "US", "US") :
        salary \in {40000, 120000},
        job \in {<<"SE", 0>>, <<"SE", 100>>, <<"XX", 100>>}}

InitFlow ==
    /\ salaryPageLoading
    /\ countryData = Atlas
    /\ isoCodeMapData = CleanTable
    /\ salaryData \in seqsUpTo(FlowRecords, MaxRecords)

SpecFlow == InitFlow /\ [][NextSalary]_vars

\* the salary dashboard over record lists that differ in the salary
HistogramRecords ==
    {salaryRecord(15000 * multiple, "SE", 100, "US", "US") : multiple \in 1..MaxHistMultiple}

InitHistogram ==
    /\ salaryPageLoading
    /\ countryData = Atlas
    /\ isoCodeMapData = CleanTable
    /\ salaryData \in seqsUpTo(HistogramRecords, MaxRecords)

SpecHistogram == InitHistogram /\ [][NextSalary]_vars

\* the salary dashboard over atlases that differ in the polygons of one
\* country, among them two of equal area and one listed backwards, and in
\* whether the other country has a polygon with points at all; each country
\* employs residents of the other
ShapePolygons ==
    {<<square(2, 2, 2)>>, <<square(8, 2, 2)>>, <<square(2, 8, 4)>>,
     <<reverseRing(square(2, 2, 2))>>}

InitShapes ==
    /\ salaryPageLoading
    /\ countryData \in
          {atlasOf(multiPolygonGeometry(polygons), polygonGeometry(rings)) :
              polygons \in seqsUpTo(ShapePolygons, MaxPolygons) \ {<<>>},
              rings \in {<<square(2, 10, 8)>>, <<>>}}
    /\ isoCodeMapData = CleanTable
    /\ salaryData = <<salaryRecord(120000, "SE", 100, "US", "CA"),
                      salaryRecord(90000, "SE", 100, "CA", "US")>>

SpecShapes == InitShapes /\ [][NextSalary]_vars

\* both pages over reference tables that may repeat ids, alpha-2 and
\* alpha-3 codes
CodeRows == {refRow(a2, a3, id) : a2 \in {"US", "CA"}, a3 \in {"USA", "CAN"},
                                  id \in {840, 124}}

InitCodes ==
    \/ /\ salaryPageLoading
       /\ countryData = Atlas
       /\ isoCodeMapData \in seqsUpTo(CodeRows, MaxRows)
       /\ salaryData = <<salaryRecord(120000, "SE", 100, "US", "US")>>
    \/ /\ disasterPageLoading
       /\ countryData = Atlas
       /\ countryCodeData \in seqsUpTo(CodeRows, MaxRows)

NextCodes == NextSalary \/ initCountryCodeConversionMaps

SpecCodes == InitCodes /\ [][NextCodes]_vars

(* ------------------------------- claims -------------------------------- *)

lastClick == trail[Len(trail)]

\* the country id the salary selection `iso2` stands for, if any
resolved(iso2) == lookupOpt(isoCodeToIdMap, iso2)

\* clicking the country selects a code that stands for that same country
roundTrips(id) == lookupOpt(isoCodeToIdMap, lookup(idToIsoCodeMap, id)) = <<id>>

\* C1 as stated: after a click on country E in either map, the selection is
\* unset if it was E before the click and is E otherwise.
C1_AsStated ==
    trail # <<>> =>
        LET E == lastClick.clicked
        IN /\ page = "disaster" =>
                IF lastClick.before = <<E>> THEN selectedCountry = null
                ELSE selectedCountry = <<E>>
           /\ page = "salary" =>
                IF resolved(lastClick.before) = <<E>> THEN selectedCountryIso2 = null
                ELSE resolved(selectedCountryIso2) = <<E>>

\* C1 amended: the disaster map toggles as stated.  In the salary map a click
\* on a country E without an entry in the median map unsets the selection;
\* with an entry, the selection is unset if it stood for E and otherwise
\* becomes idToIsoCodeMap[E], the code of the last reference row with id E.
C1_ClickTransition ==
    trail # <<>> =>
        LET E == lastClick.clicked
        IN /\ page = "disaster" =>
                IF lastClick.before = <<E>> THEN selectedCountry = null
                ELSE selectedCountry = <<E>>
           /\ page = "salary" =>
                IF <<E>> \notin DOMAIN countrySalaries THEN selectedCountryIso2 = null
                ELSE IF resolved(lastClick.before) = <<E>> THEN selectedCountryIso2 = null
                ELSE \E i \in DOMAIN isoCodeMapData :
                        /\ isoCodeMapData[i].country_id = E
                        /\ \A j \in DOMAIN isoCodeMapData :
                               isoCodeMapData[j].country_id = E => j <= i
                        /\ selectedCountryIso2 = <<isoCodeMapData[i].country_code_alpha2>>

\* C1 witness: both branches have been taken in the salary map, a click on
\* the selected country that unset it after a click that selected it.
C1_Witness ==
    /\ page = "salary"
    /\ Len(trail) >= 2
    /\ trail[Len(trail) - 1].before = null
    /\ lastClick.before # null
    /\ resolved(lastClick.before) = <<lastClick.clicked>>
    /\ selectedCountryIso2 = null

\* the countries drawn as the selected one: full opacity while a selection
\* dims the others (salary map), the highlight stroke (disaster map)
highlighted ==
    IF page = "salary"
    THEN {id \in DOMAIN opacity : selectedCountryIso2 # null /\ opacity[id] = "1"}
    ELSE {id \in DOMAIN countryGroups : countryGroups[id].stroke = "yellow"}

allSalaries == [i \in DOMAIN salaryData |-> salaryData[i].salary_in_usd]

\* the last two / three clicks, when the first of them found no selection
clickedTwice(X) ==
    /\ Len(trail) >= 2
    /\ trail[Len(trail) - 1] = [before |-> null, clicked |-> X]
    /\ lastClick.clicked = X

clickedXYX(X, Y) ==
    /\ Len(trail) >= 3
    /\ trail[Len(trail) - 2] = [before |-> null, clicked |-> X]
    /\ trail[Len(trail) - 1].clicked = Y
    /\ lastClick.clicked = X

drawnCountries == IF page = "salary" THEN DOMAIN opacity ELSE DOMAIN countryGroups

unsetGlobal ==
    IF page = "disaster" THEN selectedCountry = null
    ELSE /\ selectedCountryIso2 = null
         /\ selectedCountryName = "Global"
         /\ histogramData = allSalaries
         /\ Len(sankeyData) = Len(salaryData)

selectionIs(X) ==
    IF page = "disaster" THEN selectedCountry = <<X>>
    ELSE resolved(selectedCountryIso2) = <<X>>

rowId(a2) ==
    LET rows == {i \in DOMAIN isoCodeMapData :
                    isoCodeMapData[i].country_code_alpha2 = a2}
    IN IF rows = {} THEN undefined
       ELSE <<isoCodeMapData[CHOOSE i \in rows : \A j \in rows : j <= i].country_id>>

\* the records of the selected company country; all of them without selection
kept ==
    {i \in DOMAIN salaryData :
        selectedCountryIso2 # null =>
            salaryData[i].company_location = selectedCountryIso2[1]}

occurrences(seq, x) == Cardinality({i \in DOMAIN seq : seq[i] = x})

\* the histogram values are the salaries of the records S
histogramFrom(S) ==
    /\ Len(histogramData) = Cardinality(S)
    /\ \A i \in S :
          occurrences(histogramData, salaryData[i].salary_in_usd)
              = Cardinality({j \in S : salaryData[j].salary_in_usd
                                          = salaryData[i].salary_in_usd})

flowTriple(r) ==
    [salaryBin       |-> binSalaries(r.salary_in_usd),
     experienceLevel |-> experienceLevelMap(r.experience_level),
     workType        |-> binWorkTypes(r.remote_ratio)]

\* the flow triples are those of the records S
flowsFrom(S) ==
    /\ Len(sankeyData) = Cardinality(S)
    /\ \A i \in S :
          occurrences(sankeyData, flowTriple(salaryData[i]))
              = Cardinality({j \in S : flowTriple(salaryData[j])
                                          = flowTriple(salaryData[i])})

\* the records of S with company country C and employee country H
linked(S, C, H) ==
    {i \in S : /\ rowId(salaryData[i].company_location) = C
               /\ rowId(salaryData[i].employee_residence) = H}

employeeKeys == {rowId(salaryData[i].employee_residence) : i \in DOMAIN salaryData}

\* the linkage counts of the drawn countries count the records S
linkageFrom(S) ==
    \A C \in DOMAIN employee_countries :
        /\ DOMAIN employee_countries[C]
               = {H \in employeeKeys : linked(S, <<C>>, H) # {}}
        /\ \A H \in DOMAIN employee_countries[C] :
               employee_countries[C][H] = Cardinality(linked(S, <<C>>, H))

\* the median map has the countries of the records S
mediansFrom(S) ==
    /\ Len(mapData) = Cardinality(S)
    /\ DOMAIN countrySalaries = {rowId(salaryData[i].company_location) : i \in S}

referenceTable == IF page = "salary" THEN isoCodeMapData ELSE countryCodeData

\* the lookup tables of the page have been built from a table with rows
tablesBuilt ==
    /\ referenceTable # <<>>
    /\ page = "salary" => phase = "ready"
    /\ page = "disaster" => ISO2ToIdMap # <<>>

\* alpha-2 -> id -> alpha-2 through the tables of the salary dashboard
alpha2ViaId(a2) == lookupOpt(idToIsoCodeMap, lookup(isoCodeToIdMap, a2))

\* alpha-2 -> alpha-3 -> alpha-2 and back through the disaster conversions
alpha2ViaAlpha3(a2) == lookupOpt(ISO3ToISO2Map, convertISO2ToISO3(a2))

alpha3ViaAlpha2(a3) == lookupOpt(ISO2ToISO3Map, convertISO3ToISO2(a3))

\* rows of the table that agree on column `same` agree on column `then`
determines(same, then) ==
    \A i, j \in DOMAIN referenceTable :
        referenceTable[i][same] = referenceTable[j][same]
            => referenceTable[i][then] = referenceTable[j][then]

\* C4 as stated: for any reference table, every alpha-2 code of the table
\* comes back from alpha-2 -> id -> alpha-2 and from alpha-2 -> alpha-3 ->
\* alpha-2, and every alpha-3 code from alpha-3 -> alpha-2 -> alpha-3.
C4_AsStated ==
    tablesBuilt =>
        \A i \in DOMAIN referenceTable :
            LET a2 == referenceTable[i].country_code_alpha2
                a3 == referenceTable[i].country_code_alpha3
            IN /\ page = "salary" => alpha2ViaId(a2) = <<a2>>
               /\ page = "disaster" => /\ alpha2ViaAlpha3(a2) = <<a2>>
                                       /\ alpha3ViaAlpha2(a3) = <<a3>>

\* C4 amended: alpha-2 -> id -> alpha-2 returns every alpha-2 code of a table
\* whose rows with the same id have the same alpha-2 code; alpha-2 -> alpha-3
\* -> alpha-2 returns every alpha-2 code of a table whose rows with the same
\* alpha-3 code have the same alpha-2 code; alpha-3 -> alpha-2 -> alpha-3
\* returns every alpha-3 code of a table whose rows with the same alpha-2
\* code have the same alpha-3 code.
C4_RoundTrips ==
    tablesBuilt =>
        \A i \in DOMAIN referenceTable :
            LET a2 == referenceTable[i].country_code_alpha2
                a3 == referenceTable[i].country_code_alpha3
            IN /\ page = "salary" /\ determines("country_id", "country_code_alpha2")
                    => alpha2ViaId(a2) = <<a2>>
               /\ page = "disaster" /\ determines("country_code_alpha3", "country_code_alpha2")
                    => alpha2ViaAlpha3(a2) = <<a2>>
               /\ page = "disaster" /\ determines("country_code_alpha2", "country_code_alpha3")
                    => alpha3ViaAlpha2(a3) = <<a3>>

\* C4 witness: the disaster conversions were built from a table of two
\* countries, and both codes of both countries make the round trip.
C4_Witness ==
    /\ page = "disaster"
    /\ tablesBuilt
    /\ Cardinality(DOMAIN ISO2ToISO3Map) = 2
    /\ Cardinality(DOMAIN ISO3ToISO2Map) = 2
    /\ \A a2 \in DOMAIN ISO2ToISO3Map : alpha2ViaAlpha3(a2) = <<a2>>
    /\ \A a3 \in DOMAIN ISO3ToISO2Map : alpha3ViaAlpha2(a3) = <<a3>>

\* the records whose company_location is in no reference row
unattached ==
    {i \in DOMAIN salaryData : rowId(salaryData[i].company_location) = undefined}

attachedMedians ==
    {countrySalaries[key] : key \in DOMAIN countrySalaries \ {undefined}}

\* C5 as stated: a record whose company_location is absent from the
\* reference table makes no entry in the median map and leaves the colour
\* domain to the medians of the resolved countries, and it is still among
\* the histogram values and the flow triples.
C5_AsStated ==
    phase = "ready" /\ unattached # {} =>
        /\ undefined \notin DOMAIN countrySalaries
        /\ colorDomain = extent(attachedMedians)
        /\ \A i \in unattached \cap kept :
              /\ occurrences(histogramData, salaryData[i].salary_in_usd) > 0
              /\ occurrences(sankeyData, flowTriple(salaryData[i])) > 0

\* the salaries of the records whose company country resolves to `key`
salariesOf(key) ==
    {i \in DOMAIN salaryData : rowId(salaryData[i].company_location) = key}

\* twice the median of the salaries of the records S, by rank: the k-th
\* smallest is the value with fewer than k values below it and at least k
\* values not above it
medianByRank(S) ==
    LET n == Cardinality(S)
        salary(i) == salaryData[i].salary_in_usd
        kth(k) == CHOOSE v \in {salary(i) : i \in S} :
                      /\ Cardinality({i \in S : salary(i) < v}) < k
                      /\ Cardinality({i \in S : salary(i) <= v}) >= k
    IN kth((n + 1) \div 2) + kth((n \div 2) + 1)

knownIds ==
    {isoCodeMapData[i].country_id : i \in DOMAIN isoCodeMapData}
        \cup {countryData[i].id : i \in DOMAIN countryData}

\* C7: the median map has a key for exactly the resolved country ids that
\* occur in a record, each with the median of that country's salaries; a
\* country without records has no key.
C7_MedianPerCountry ==
    phase = "ready" =>
        \A id \in knownIds :
            /\ <<id>> \in DOMAIN countrySalaries <=> salariesOf(<<id>>) # {}
            /\ <<id>> \in DOMAIN countrySalaries =>
                   countrySalaries[<<id>>] = medianByRank(salariesOf(<<id>>))

\* C7 witness: one country has two records of different salaries, its
\* median lying between them, and a drawn country has no record and no key.
C7_Witness ==
    /\ phase = "ready"
    /\ \E id \in knownIds :
          /\ Cardinality(salariesOf(<<id>>)) = 2
          /\ \E i, j \in salariesOf(<<id>>) :
                /\ salaryData[i].salary_in_usd < salaryData[j].salary_in_usd
                /\ countrySalaries[<<id>>] > 2 * salaryData[i].salary_in_usd
                /\ countrySalaries[<<id>>] < 2 * salaryData[j].salary_in_usd
    /\ \E id \in DOMAIN opacity :
          salariesOf(<<id>>) = {} /\ <<id>> \notin DOMAIN countrySalaries

\* C9: the linkage counts of every drawn company country C count, for every
\* employee country H, the records with company country C and employee
\* country H; the arcs of the selected country go to exactly the linked
\* countries with a positive count that are drawn.
C9_LinkageAndArcs ==
    phase = "ready" =>
        /\ \A C \in DOMAIN employee_countries :
              \A H \in employeeKeys \cup {<<id>> : id \in knownIds} :
                 LET count == Cardinality(linked(DOMAIN salaryData, <<C>>, H))
                 IN /\ H \in DOMAIN employee_countries[C] <=> count > 0
                    /\ count > 0 => employee_countries[C][H] = count
        /\ \A i, j \in DOMAIN countryConnections :
              countryConnections[i].countryId = countryConnections[j].countryId => i = j
        /\ {arc.countryId : arc \in {countryConnections[i] : i \in DOMAIN countryConnections}}
              = IF selectedCountryIso2 = null THEN {}
                ELSE {H \in DOMAIN opacity :
                        linked(DOMAIN salaryData, rowId(selectedCountryIso2[1]), <<H>>) # {}}
        /\ \A i \in DOMAIN countryConnections :
              countryConnections[i].count
                  = Cardinality(linked(DOMAIN salaryData, rowId(selectedCountryIso2[1]),
                                       <<countryConnections[i].countryId>>))

\* C9 witness: the selected country has records of an employee country that
\* is drawn, with an arc, and of one that is not drawn, without an arc.
C9_Witness ==
    /\ phase = "ready"
    /\ selectedCountryIso2 # null
    /\ Len(countryConnections) = 1
    /\ \E H \in knownIds \ DOMAIN opacity :
          linked(DOMAIN salaryData, rowId(selectedCountryIso2[1]), <<H>>) # {}

\* the bins that hold the value v
binsHolding(v) == {b \in DOMAIN bins : occurrences(bins[b].values, v) > 0}

\* C6 as stated: every histogram value falls into exactly one bin, and the
\* bin that holds the maximum value is never the final bin.
C6_AsStated ==
    phase = "ready" /\ histogramData # <<>> =>
        /\ \A i \in DOMAIN histogramData :
              /\ Cardinality(binsHolding(histogramData[i])) = 1
              /\ \A b \in binsHolding(histogramData[i]) :
                    occurrences(bins[b].values, histogramData[i])
                        = occurrences(histogramData, histogramData[i])
        /\ Len(bins) \notin binsHolding(maxOf(histogramData))

\* the records whose flow goes from label a to label b, in the first hop
\* (salary bin to experience level) and in the second (experience level to
\* work type)
firstHop(a, b) ==
    {i \in DOMAIN sankeyData :
        sankeyData[i].salaryBin = a /\ sankeyData[i].experienceLevel = b}

secondHop(a, b) ==
    {i \in DOMAIN sankeyData :
        sankeyData[i].experienceLevel = a /\ sankeyData[i].workType = b}

\* the labels of the two nodes each link joins
linkEnds ==
    LET nodes == sankeyNodes(sankeyData)
    IN [l \in DOMAIN links |-> <<nodes[links[l].source + 1], nodes[links[l].target + 1]>>]

flowLabels ==
    UNION {{sankeyData[i].salaryBin, sankeyData[i].experienceLevel,
            sankeyData[i].workType} : i \in DOMAIN sankeyData}

\* C8: the links are one per (salary bin, experience level) pair and one per
\* (experience level, work type) pair that some record has, each valued with
\* the number of records having the pair; no link has value 0 and the values
\* add up to twice the number of records.
C8_LinkCounts ==
    phase = "ready" =>
        LET ends == linkEnds
        IN /\ \A a, b \in flowLabels :
                 LET pairs == Cardinality(firstHop(a, b)) + Cardinality(secondHop(a, b))
                     between == {l \in DOMAIN links : ends[l] = <<a, b>>}
                 IN /\ Cardinality(between) = IF pairs > 0 THEN 1 ELSE 0
                    /\ \A l \in between : links[l].value = pairs
           /\ \A l \in DOMAIN links :
                 /\ links[l].value > 0
                 /\ ends[l][1] \in flowLabels
                 /\ ends[l][2] \in flowLabels
           /\ sumSeq([l \in DOMAIN links |-> links[l].value]) = 2 * Len(sankeyData)

\* C8 witness: two records share their first pair and differ in the second,
\* giving one link of value 2 and two links of value 1.
C8_Witness ==
    /\ phase = "ready"
    /\ Len(sankeyData) = 2
    /\ Len(links) = 3
    /\ \E l \in DOMAIN links :
          /\ links[l].value = 2
          /\ Cardinality(firstHop(linkEnds[l][1], linkEnds[l][2])) = 2

\* a step of the disaster page that leaves registry, phase and conversion
\* tables alone is a run of updateDisplay, from a click or on its own
updateDisplayRan ==
    /\ page = "disaster"
    /\ updateCallbacks' = updateCallbacks
    /\ phase' = phase
    /\ conversionMaps' = conversionMaps

\* a registration puts the new callback behind those registered before
registeredLast ==
    updateCallbacks' # updateCallbacks =>
        /\ Len(updateCallbacks') = Len(updateCallbacks) + 1
        /\ SubSeq(updateCallbacks', 1, Len(updateCallbacks)) = updateCallbacks

\* C10: every run of updateDisplay invokes each registered callback exactly
\* once, in registration order, however registrations and runs interleave.
C10_InvokedInOrder ==
    [][registeredLast /\ (updateDisplayRan => invoked' = updateCallbacks)]_vars

\* C10 witness: a run has invoked every registered callback, at least two
\* of them and of two kinds.
C10_Witness ==
    /\ page = "disaster"
    /\ Len(invoked) >= 2
    /\ invoked = updateCallbacks
    /\ \E i, j \in DOMAIN invoked : invoked[i] # invoked[j]

redrawnByClick == page = "salary" /\ trail' # trail

\* C12: the transform on the map group after a full teardown and redraw is
\* the one that was on it before, and the saved transform is the same too,
\* however zoom events and clicks interleave.
C12_TransformSurvivesRedraw ==
    [][redrawnByClick =>
          /\ mapGroupTransform' = mapGroupTransform
          /\ mapTransformation' = mapTransformation
          /\ mapGroupTransform' = <<mapTransformation'>>]_vars

\* C12 witness: the dashboard has been redrawn by clicks and the map group
\* carries a transform other than the identity, the saved one.
C12_Witness ==
    /\ page = "salary"
    /\ Len(trail) >= 2
    /\ mapGroupTransform # <<zoomIdentity>>
    /\ mapGroupTransform = <<mapTransformation>>

\* no view of the salary dashboard has been drawn
nothingDrawn ==
    /\ bins = <<>> /\ links = <<>> /\ opacity = <<>>
    /\ countryConnections = <<>> /\ mapGroupTransform = undefined

\* C13: displayDashboard has run only if all three loads were fulfilled, in
\* whatever order they settled; once a load is rejected displayDashboard
\* has not run and no view is drawn.
C13_DrawnAfterAllLoads ==
    page = "salary" =>
        /\ phase = "ready" => \A load \in DOMAIN loads : loads[load] = "fulfilled"
        /\ phase = "loading" => nothingDrawn
        /\ (\E load \in DOMAIN loads : loads[load] = "rejected") => phase = "loading"

\* C13 witness: the last load of the array was rejected after the other two
\* were fulfilled, and nothing is drawn.
C13_Witness ==
    /\ page = "salary"
    /\ loads[Loads[1]] = "fulfilled"
    /\ loads[Loads[2]] = "fulfilled"
    /\ loads[Loads[3]] = "rejected"
    /\ phase = "loading"
    /\ nothingDrawn

\* the orders the polygons 1..n can be listed in
orders(n) == {p \in [1..n -> 1..n] : \A i, j \in 1..n : i # j => p[i] # p[j]}

reversePolygon(polygon) == [r \in DOMAIN polygon |-> reverseRing(polygon[r])]

\* C14 as stated: the largest polygon of a multi-polygon shape is the same
\* polygon however the polygons are ordered and whichever of them have
\* their rings listed backwards, polygons of equal area included.
C14_AsStated ==
    phase = "ready" =>
        \A id \in DOMAIN largestPolygon :
            LET polygons == countryMap[id].geometry.coordinates
                chosen   == largestPolygon[id]
            IN countryMap[id].geometry.type = "MultiPolygon" =>
                  /\ \A p \in orders(Len(polygons)) :
                        largestPoly(multiPolygonGeometry(
                            [i \in DOMAIN polygons |-> polygons[p[i]]])) = chosen
                  /\ \A backwards \in SUBSET DOMAIN polygons :
                        largestPoly(multiPolygonGeometry(
                            [i \in DOMAIN polygons |->
                                IF i \in backwards THEN reversePolygon(polygons[i])
                                ELSE polygons[i]]))
                            \in {chosen, <<reversePolygon(chosen[1])>>}

\* the numbers of the drawn d attribute `arc`
arcNumbers(arc) == {arc.x1, arc.y1, arc.x2, arc.y2}

\* C15 as stated: no label position and no arc end point is NaN; the label
\* of a country whose centroid is NaN is at (0, 0), and so is the end of
\* every arc at such a country.
C15_AsStated ==
    phase = "ready" =>
        /\ \A id \in DOMAIN labels :
              /\ ~isNaN(labels[id].x) /\ ~isNaN(labels[id].y)
              /\ isNaN(centroid[id][1]) => labels[id].x = <<0>>
              /\ isNaN(centroid[id][2]) => labels[id].y = <<0>>
        /\ \A i \in DOMAIN arcs :
              arcs[i] # null =>
                  /\ NaN \notin arcNumbers(arcs[i][1])
                  /\ centroid[countryConnections[i].countryId] = <<NaN, NaN>>
                        => arcs[i][1].x1 = <<0>> /\ arcs[i][1].y1 = <<0>>

\* the views of the salary dashboard as a redraw without selection leaves
\* them: all records in histogram and flows, no country dimmed, no arc
drawnUnselected ==
    /\ histogramData = allSalaries
    /\ Len(sankeyData) = Len(salaryData)
    /\ \A id \in DOMAIN opacity : opacity[id] = "1"
    /\ countryConnections = <<>>
    /\ arcs = <<>>

\* C16: after a click in the salary map on a country without an entry in
\* the median map, nothing is selected and the name is Global, whatever was
\* selected before, and everything is redrawn for no selection.
C16_NoDataClickUnsets ==
    page = "salary" /\ trail # <<>> /\ <<lastClick.clicked>> \notin DOMAIN countrySalaries =>
        /\ selectedCountryIso2 = null
        /\ selectedCountryName = "Global"
        /\ drawnUnselected

\* C16 witness: a country was selected, with the other countries dimmed,
\* when a country without entry was clicked; now nothing is selected.
C16_Witness ==
    /\ page = "salary"
    /\ trail # <<>>
    /\ lastClick.before # null
    /\ <<lastClick.clicked>> \notin DOMAIN countrySalaries
    /\ lastClick.clicked \in DOMAIN opacity
    /\ selectedCountryIso2 = null
    /\ drawnUnselected

\* the rows of the reference table that carry an alpha-2 code, and the name
\* the table gives to the code: the one of its last row
rowsOfCode(code) ==
    {i \in DOMAIN isoCodeMapData : isoCodeMapData[i].country_code_alpha2 = code}

nameOfCode(code) ==
    LET last == CHOOSE i \in rowsOfCode(code) : \A j \in rowsOfCode(code) : j <= i
    IN  isoCodeMapData[last].country_name

\* C17: on the salary dashboard the selected code is null exactly when the
\* selected name is Global, and a selected code comes with the name the
\* reference table gives to it.
C17_NameFollowsCode ==
    page = "salary" =>
        /\ selectedCountryIso2 = null <=> selectedCountryName = "Global"
        /\ selectedCountryIso2 # null =>
              /\ rowsOfCode(selectedCountryIso2[1]) # {}
              /\ selectedCountryName = nameOfCode(selectedCountryIso2[1])

\* C17 witness: a click selected a code that two rows of the table carry
\* with different names.
C17_Witness ==
    /\ page = "salary"
    /\ trail # <<>>
    /\ selectedCountryIso2 # null
    /\ \E i, j \in rowsOfCode(selectedCountryIso2[1]) :
           isoCodeMapData[i].country_name # isoCodeMapData[j].country_name
    /\ selectedCountryName = nameOfCode(selectedCountryIso2[1])

\* C18: on the salary dashboard a selected code is the company location of
\* at least one salary record, so histogram and flow diagram are fed with
\* at least one record, whatever the reference table.
C18_AsStated ==
    page = "salary" /\ selectedCountryIso2 # null =>
        /\ \E i \in DOMAIN salaryData :
               salaryData[i].company_location = selectedCountryIso2[1]
        /\ histogramData # <<>>
        /\ sankeyData # <<>>

\* the steps of the handlers, told apart by what only they change: a click
\* is recorded in the trail, a zoom event moves the map group of a drawn
\* map, a run of the callbacks or a first draw is neither
clickStep == trail' # trail

zoomStep ==
    /\ trail' = trail
    /\ phase = "ready"
    /\ mapGroupTransform' # mapGroupTransform

redrawStep ==
    /\ trail' = trail
    /\ \/ page = "disaster" /\ invoked' # invoked
       \/ page = "salary" /\ phase = "loading" /\ phase' = "ready"

selection == <<selectedCountryIso2, selectedCountryName, selectedCountry>>

\* C19: a country click leaves selectedYear, displayStage, the data and the
\* callback list (disaster map) and the map transform (salary map) as they
\* were; a zoom event leaves the selection as it was; a run of the redraw
\* callbacks leaves selection, transform and the other fields as they were.
C19_WritesConfined ==
    [][/\ clickStep =>
             UNCHANGED <<selectedYear, displayStage, countryCodeData, updateCallbacks,
                         mapTransformation>>
       /\ zoomStep =>
             UNCHANGED <<selection, selectedYear, displayStage, countryCodeData,
                         updateCallbacks>>
       /\ redrawStep =>
             UNCHANGED <<selection, mapTransformation, selectedYear, displayStage,
                         countryCodeData>>]_vars

\* C19 witness: on a zoomed salary map a click has just selected a country,
\* and the map is still zoomed.
C19_Witness ==
    /\ page = "salary"
    /\ trail # <<>>
    /\ mapTransformation # zoomIdentity
    /\ mapGroupTransform = <<mapTransformation>>
    /\ selectedCountryIso2 # null
    /\ selectedCountryIso2 # lastClick.before

====
